---- MODULE Spec2Model ----
(***************************************************************************)
(* Model of the reward-flight search service of src/src/main.rs: the two   *)
(* HTTP handlers, the two searches of RewardFlightLatestRepository (count  *)
(* query, page query, row mapping, Page construction), the PostgreSQL      *)
(* tables they read, and MockRewardFlightRepository.                       *)
(*                                                                         *)
(* Specifications: Spec (one exchange at a time on a fixed store),         *)
(* SpecRerun (the same request sent twice), SpecMap (the row mapping       *)
(* closure), SpecSigned (negative page parameters), SpecWrites (writers    *)
(* beside the exchange), SpecConc (searches side by side), SpecMock (the   *)
(* mock repository).                                                       *)
(*                                                                         *)
(* A nullable SQL cell and a Rust Option are both written <<>> (NULL,      *)
(* None) or <<v>> (a value, Some(v)).  A date is <<year, month, day>>.     *)
(***************************************************************************)
EXTENDS Integers, Sequences, FiniteSets, TLC

VARIABLES
    reward_flights_latest,  \* the base table: a set of rows
    award,                  \* the four cabin tables: alias -> set of rows
    pc,                     \* where the request in flight stands
    req,                    \* the arguments the handler passed to the repository
    count_result,           \* outcome of the count query
    result,                 \* what the repository method returned
    response,               \* the HTTP response of the handler
    row,                    \* a joined row handed to the row mapping closure
    mapped,                 \* the RewardFlightLatest the closure built from it
    prev,                   \* the preceding exchange, as its caller saw it
    request,                \* the HTTP request in flight, as it arrived
    queries,                \* the queries the search in flight has issued, in order
    wrote,                  \* a write reached the store after the count query
    searches,               \* the searches in flight side by side
    mock                    \* a call of MockRewardFlightRepository

vars == <<reward_flights_latest, award, pc, req, count_result, result, response,
          row, mapped, prev, request, queries, wrote, searches, mock>>

\* what the single exchange of Spec never touches
aside == <<searches, mock>>

\* the single exchange of Spec
exchange == <<pc, req, count_result, result, response, row, mapped, prev, request,
              queries, wrote>>

----------------------------------------------------------------------------
(* Bounds of the model *)

MaxFlights == 3
MaxAwards == 2
MaxDay == 1
MaxPage == 1
MaxSize == 2
MaxClock == 2
MaxNeg == 1
NumSearches == 2
MaxLoop == 4

----------------------------------------------------------------------------
(* Option / nullable cell *)

None == <<>>
Some(v) == <<v>>
IsSome(o) == Len(o) = 1
IsNone(o) == Len(o) = 0
Unwrap(o) == o[1]
UnwrapOr(o, d) == IF IsSome(o) THEN o[1] ELSE d

Min(a, b) == IF a <= b THEN a ELSE b
Max(a, b) == IF a >= b THEN a ELSE b

----------------------------------------------------------------------------
(* Machine integers *)

\* A usize is its eight bytes, most significant first (usize::to_be_bytes on
\* a 64-bit target): <<0, 0, 0, 0, 0, 0, 1, 44>> is 300.  The i32 of the
\* request parameters, the counts and the lengths are plain integers.

\* the usize of a number 0 <= n < 2^31
Usize(n) ==
    <<0, 0, 0, 0, n \div 16777216, (n \div 65536) % 256, (n \div 256) % 256, n % 256>>

\* usize::MAX, 2^64 - 1 = 18446744073709551615
USIZE_MAX == <<255, 255, 255, 255, 255, 255, 255, 255>>

\* the usize is below 2^31 ...
Fits(u) == u[1] = 0 /\ u[2] = 0 /\ u[3] = 0 /\ u[4] = 0 /\ u[5] < 128

\* ... and is this number
Number(u) == ((u[5] * 256 + u[6]) * 256 + u[7]) * 256 + u[8]

\* min(u, n) for a usize u and a number n
AtMost(u, n) == IF Fits(u) /\ Number(u) <= n THEN Number(u) ELSE n

\* i32 as usize: a negative value is sign-extended, -n becomes 2^64 - n
AsUsize(n) ==
    IF n >= 0 THEN Usize(n)
    ELSE LET m == (n + 2147483647) + 1
         IN  <<255, 255, 255, 255, 128 + m \div 16777216, (m \div 65536) % 256,
               (m \div 256) % 256, m % 256>>

\* The bytes of the column sums c[1..i], column j counting 256^(Len(c) - j),
\* with carry coming in from column i + 1; the carry out of column 1 is lost.
RECURSIVE Carried(_, _, _)
Carried(c, i, carry) ==
    IF i = 0 THEN <<>>
    ELSE LET sum == c[i] + carry
         IN  Append(Carried(c, i - 1, sum \div 256), sum % 256)

\* the nine bytes of a + b
FullAdd(a, b) == Carried([i \in 1..9 |-> IF i = 1 THEN 0 ELSE a[i - 1] + b[i - 1]], 9, 0)

\* a + b is below 2^31: the sum is formed on the numbers
SmallSum(a, b) == Fits(a) /\ Fits(b) /\ Number(b) <= 2147483647 - Number(a)

\* a + b exceeds usize::MAX
AddOverflows(a, b) == ~SmallSum(a, b) /\ FullAdd(a, b)[1] # 0

\* a + b modulo 2^64
WrappingAdd(a, b) ==
    IF SmallSum(a, b) THEN Usize(Number(a) + Number(b)) ELSE SubSeq(FullAdd(a, b), 2, 9)

\* a[i] * b[k - i] summed over the i from which column k of a * b collects
RECURSIVE ColumnSum(_, _, _, _)
ColumnSum(a, b, k, i) ==
    IF i > 8 THEN 0
    ELSE (IF k - i \in 1..8 THEN a[i] * b[k - i] ELSE 0) + ColumnSum(a, b, k, i + 1)

\* the sixteen bytes of a * b
FullMul(a, b) == Carried([k \in 1..16 |-> ColumnSum(a, b, k, 1)], 16, 0)

\* a * b is below 2^31: the product is formed on the numbers
SmallProduct(a, b) ==
    /\ Fits(a)
    /\ Fits(b)
    /\ (Number(a) = 0 \/ Number(b) <= 2147483647 \div Number(a))

\* a * b exceeds usize::MAX
MulOverflows(a, b) == ~SmallProduct(a, b) /\ SubSeq(FullMul(a, b), 1, 8) # Usize(0)

\* a * b modulo 2^64, what the multiplication of two usize gives where
\* overflow is not checked
WrappingMul(a, b) ==
    IF SmallProduct(a, b) THEN Usize(Number(a) * Number(b)) ELSE SubSeq(FullMul(a, b), 9, 16)

\* usize as i64: the same 64 bits read as a signed number, written as its
\* sign and the usize of its magnitude (2^64 - u for a set top bit)
AsI64(u) ==
    IF u[1] >= 128
    THEN [negative |-> TRUE, magnitude |-> WrappingAdd([i \in 1..8 |-> 255 - u[i]], Usize(1))]
    ELSE [negative |-> FALSE, magnitude |-> u]

----------------------------------------------------------------------------
(* Dates *)

Dates == {<<2024, 5, 31>>} \cup {<<2024, 6, d>> : d \in 1..MaxDay}

DateLE(a, b) ==
    \/ a[1] < b[1]
    \/ a[1] = b[1] /\ a[2] < b[2]
    \/ a[1] = b[1] /\ a[2] = b[2] /\ a[3] <= b[3]

Pad2(n) == IF n < 10 THEN "0" \o ToString(n) ELSE ToString(n)

Pad4(n) ==
    IF n < 10 THEN "000" \o ToString(n)
    ELSE IF n < 100 THEN "00" \o ToString(n)
    ELSE IF n < 1000 THEN "0" \o ToString(n)
    ELSE ToString(n)

\* date.format("%Y-%m-%d").to_string()
FormatDate(d) == Pad4(d[1]) \o "-" \o Pad2(d[2]) \o "-" \o Pad2(d[3])

\* The path segments offered as {from} and {to}: well-formed dates and one
\* string NaiveDate::parse_from_str rejects (there is no month 13).
DateStrings == {FormatDate(d) : d \in Dates} \cup {"2024-13-01"}

\* a parse that falls back on a date where the string is not one
ParseDate_Lenient(s) ==
    IF \E d \in Dates : FormatDate(d) = s
    THEN Some(CHOOSE d \in Dates : FormatDate(d) = s)
    ELSE Some(<<2024, 5, 31>>)

\* NaiveDate::parse_from_str(s, "%Y-%m-%d"): Some(date), or None for Err
ParseDate(s) ==
    IF \E d \in Dates : FormatDate(d) = s
    THEN Some(CHOOSE d \in Dates : FormatDate(d) = s)
    ELSE None

Clock == 1..MaxClock

----------------------------------------------------------------------------
(* The store: reward_flights_latest and the four cabin award tables *)

\* aliases of award_economy, award_business, award_premium_economy, award_first
Cabins == {"ae", "ab", "ape", "af"}

RequestedRoute == <<"LHR", "JFK", "VS">>

OtherRoutes == {<<"MAN", "JFK", "VS">>, <<"LHR", "BOS", "VS">>, <<"LHR", "JFK", "BA">>}

\* a row of reward_flights_latest; the capture instant is the insertion rank
FlightRow(i, route, d) ==
    [id |-> Some(i), origin |-> Some(route[1]), destination |-> Some(route[2]),
     carrier_code |-> Some(route[3]), departure |-> Some(d), scraped_at |-> Some(i)]

FlightKinds ==
    {<<RequestedRoute, d>> : d \in Dates} \cup {<<r, <<2024, 6, 1>>>> : r \in OtherRoutes}

FlightTables ==
    UNION {{{FlightRow(i, s[i][1], s[i][2]) : i \in 1..n} : s \in [1..n -> FlightKinds]} :
           n \in 0..MaxFlights}

NoAwards == [c \in Cabins |-> {}]

\* <<cabin_points_value, cabin_class_seat_count>> of the award rows offered
OfferSeq ==
    <<<<Some(10), Some(1)>>, <<Some(20), Some(1)>>, <<None, Some(1)>>, <<Some(10), Some(0)>>>>

\* a row of a cabin award table, for flight f, with the j-th offer
AwardRow(f, j) ==
    [id |-> Some(Len(OfferSeq) * (f - 1) + j),
     flight_id |-> Some(f),
     cabin_points_value |-> OfferSeq[j][1],
     is_saver_award |-> Some(j = 1),
     cabin_class_seat_count |-> OfferSeq[j][2],
     cabin_class_seat_count_string |-> Some(ToString(OfferSeq[j][2][1]))]

\* two flights on the requested route, the later one inserted first, and one
\* flight from another origin
BaseFlights ==
    {FlightRow(1, RequestedRoute, <<2024, 6, 1>>),
     FlightRow(2, RequestedRoute, <<2024, 5, 31>>),
     FlightRow(3, <<"MAN", "JFK", "VS">>, <<2024, 6, 1>>)}

\* <<cabin, flight, offer>>: flight 1 may carry any of the offers in a cabin
\* that can be requested and the first two in first class, flight 2 the first
\* offer in a cabin that can be requested, flight 3 an economy offer
AwardPlacements ==
    {<<c, 1, j>> : c \in Cabins \ {"af"}, j \in 1..Len(OfferSeq)}
    \cup {<<"af", 1, j>> : j \in 1..2}
    \cup {<<c, 2, 1>> : c \in Cabins \ {"af"}}
    \cup {<<"ae", 3, 1>>}

RECURSIVE PlacementSets(_)
PlacementSets(n) ==
    IF n = 0 THEN {{}}
    ELSE LET P == PlacementSets(n - 1)
         IN  P \cup {s \cup {x} : s \in P, x \in AwardPlacements}

AwardTables(S) == [c \in Cabins |-> {AwardRow(p[2], p[3]) : p \in {q \in S : q[1] = c}}]

\* The store contents the searches are run against
Stores ==
    {[flights |-> t, award |-> NoAwards] : t \in FlightTables}
    \cup {[flights |-> BaseFlights, award |-> AwardTables(S)] : S \in PlacementSets(MaxAwards)}

----------------------------------------------------------------------------
(* SQL of the two searches *)

\* the columns of a cabin table where a LEFT JOIN found no row
NullAward ==
    [id |-> None, flight_id |-> None, cabin_points_value |-> None, is_saver_award |-> None,
     cabin_class_seat_count |-> None, cabin_class_seat_count_string |-> None]

\* LEFT JOIN <table> x ON x.flight_id = rfl.id
LeftJoin(f, tbl) ==
    LET m == {a \in tbl : IsSome(a.flight_id) /\ IsSome(f.id) /\ a.flight_id = f.id}
    IN  IF m = {} THEN {NullAward} ELSE m

\* a range filter that forgets the upper bound of BETWEEN
RangeWhere_NoUpperBound(f, origin, destination, carrier_code, from_date, to_date) ==
    /\ f.origin = Some(origin)
    /\ f.destination = Some(destination)
    /\ f.carrier_code = Some(carrier_code)
    /\ IsSome(f.departure)
    /\ DateLE(from_date, Unwrap(f.departure))

\* WHERE rfl.origin = $1 AND rfl.destination = $2 AND rfl.carrier_code = $3
\*   AND rfl.departure::date BETWEEN $4 AND $5
RangeWhere(f, origin, destination, carrier_code, from_date, to_date) ==
    /\ f.origin = Some(origin)
    /\ f.destination = Some(destination)
    /\ f.carrier_code = Some(carrier_code)
    /\ IsSome(f.departure)
    /\ DateLE(from_date, Unwrap(f.departure))
    /\ DateLE(Unwrap(f.departure), to_date)

\* SELECT COUNT(*) FROM reward_flights_latest rfl WHERE ...
RangeCount(flights, a) ==
    Cardinality({f \in flights :
        RangeWhere(f, a.origin, a.destination, a.carrier_code, a.from_date, a.to_date)})

\* FROM reward_flights_latest rfl LEFT JOIN award_economy ae ... award_first af WHERE ...
RangeRows(flights, aw, a) ==
    UNION {{[rfl |-> f, ae |-> e, ab |-> b, ape |-> p, af |-> q] :
                e \in LeftJoin(f, aw["ae"]), b \in LeftJoin(f, aw["ab"]),
                p \in LeftJoin(f, aw["ape"]), q \in LeftJoin(f, aw["af"])} :
           f \in {g \in flights :
                RangeWhere(g, a.origin, a.destination, a.carrier_code, a.from_date, a.to_date)}}

\* x.cabin_points_value IS NOT NULL AND x.cabin_class_seat_count > 0
Bookable(x) ==
    /\ IsSome(x.cabin_points_value)
    /\ IsSome(x.cabin_class_seat_count)
    /\ Unwrap(x.cabin_class_seat_count) > 0

\* WHERE rfl.origin = $1 AND rfl.destination = $2 AND (($3 = 'ECONOMY' AND ...) OR ...)
CheapestWhere(r, origin, destination, cabin_type) ==
    /\ r.rfl.origin = Some(origin)
    /\ r.rfl.destination = Some(destination)
    /\ \/ cabin_type = "ECONOMY" /\ Bookable(r.ae)
       \/ cabin_type = "PREMIUM_ECONOMY" /\ Bookable(r.ape)
       \/ cabin_type = "BUSINESS" /\ Bookable(r.ab)

\* SELECT COUNT(*) ... LEFT JOIN award_economy ae, award_business ab,
\* award_premium_economy ape (award_first is not joined) WHERE ...
CheapestCount(flights, aw, a) ==
    Cardinality({r \in UNION {{[rfl |-> f, ae |-> e, ab |-> b, ape |-> p] :
                                   e \in LeftJoin(f, aw["ae"]), b \in LeftJoin(f, aw["ab"]),
                                   p \in LeftJoin(f, aw["ape"])} : f \in flights} :
        CheapestWhere(r, a.origin, a.destination, a.cabin_type)})

\* the page query's FROM ... WHERE ..., all four cabin tables joined
CheapestRows(flights, aw, a) ==
    {r \in UNION {{[rfl |-> f, ae |-> e, ab |-> b, ape |-> p, af |-> q] :
                       e \in LeftJoin(f, aw["ae"]), b \in LeftJoin(f, aw["ab"]),
                       p \in LeftJoin(f, aw["ape"]), q \in LeftJoin(f, aw["af"])} :
                  f \in flights} :
        CheapestWhere(r, a.origin, a.destination, a.cabin_type)}

\* A sort key of ORDER BY ... ASC: NULL sorts after every value
DateKey(cell) ==
    IF IsSome(cell)
    THEN <<0, 10000 * Unwrap(cell)[1] + 100 * Unwrap(cell)[2] + Unwrap(cell)[3]>>
    ELSE <<1, 0>>

IntKey(cell) == IF IsSome(cell) THEN <<0, Unwrap(cell)>> ELSE <<1, 0>>

\* ORDER BY rfl.departure ASC
RangeOrderKey(r) == DateKey(r.rfl.departure)

\* CASE WHEN $3 = 'ECONOMY' THEN ae.cabin_points_value WHEN ... END
CasePoints(r, cabin_type) ==
    IF cabin_type = "ECONOMY" THEN r.ae.cabin_points_value
    ELSE IF cabin_type = "PREMIUM_ECONOMY" THEN r.ape.cabin_points_value
    ELSE IF cabin_type = "BUSINESS" THEN r.ab.cabin_points_value
    ELSE None

\* an ORDER BY that forgets the departure tie-break
CheapestOrderKey_PointsOnly(r, cabin_type) == IntKey(CasePoints(r, cabin_type))

\* ORDER BY CASE ... END ASC, rfl.departure ASC
CheapestOrderKey(r, cabin_type) == IntKey(CasePoints(r, cabin_type)) \o DateKey(r.rfl.departure)

LexLE(a, b) ==
    \/ a = b
    \/ \E i \in 1..Len(a) : a[i] < b[i] /\ \A j \in 1..(i - 1) : a[j] = b[j]

\* Every order in which the database may return the rows S under ORDER BY
\* key: rows with equal keys come in any order.
RECURSIVE OrderBy(_, _)
OrderBy(S, key) ==
    IF S = {} THEN {<<>>}
    ELSE UNION {{<<m>> \o t : t \in OrderBy(S \ {m}, key)} :
                m \in {x \in S : \A o \in S : LexLE(key[x], key[o])}}

\* LIMIT limit OFFSET offset, neither negative: both are the magnitudes of
\* the i64 bound to the query
LimitOffset(rows, limit, offset) ==
    LET skipped == AtMost(offset, Len(rows))
    IN  SubSeq(rows, skipped + 1, skipped + AtMost(limit, Len(rows) - skipped))

----------------------------------------------------------------------------
(* Row mapping: the closure of rows.into_iter().map(...) of both searches *)

\* a mapping in which one unreadable attribute empties the other three
MapAward_AllOrNothing(r, alias) ==
    IF IsSome(r[alias].id)
    THEN LET all == /\ IsSome(r[alias].cabin_points_value)
                    /\ IsSome(r[alias].is_saver_award)
                    /\ IsSome(r[alias].cabin_class_seat_count)
                    /\ IsSome(r[alias].cabin_class_seat_count_string)
         IN  Some([id |-> Some(ToString(Unwrap(r[alias].id))),
                   cabin_points_value |-> IF all THEN r[alias].cabin_points_value ELSE None,
                   is_saver_award |-> IF all THEN r[alias].is_saver_award ELSE None,
                   cabin_class_seat_count |->
                       IF all THEN r[alias].cabin_class_seat_count ELSE None,
                   cabin_class_seat_count_string |->
                       IF all THEN r[alias].cabin_class_seat_count_string ELSE None])
    ELSE None

\* a mapping that decides the offer's presence on the points column
MapAward_KeyedOnPoints(r, alias) ==
    IF IsSome(r[alias].cabin_points_value)
    THEN Some([id |-> IF IsSome(r[alias].id) THEN Some(ToString(Unwrap(r[alias].id))) ELSE None,
               cabin_points_value |-> r[alias].cabin_points_value,
               is_saver_award |-> r[alias].is_saver_award,
               cabin_class_seat_count |-> r[alias].cabin_class_seat_count,
               cabin_class_seat_count_string |-> r[alias].cabin_class_seat_count_string])
    ELSE None

\* match row.try_get::<i32, _>("<alias>_id") { Ok(id) => Some(Award..{..}), Err(_) => None }
\* try_get of a NULL cell is Err, and .ok() turns an Err into None.
MapAward(r, alias) ==
    IF IsSome(r[alias].id)
    THEN Some([id |-> Some(ToString(Unwrap(r[alias].id))),
               cabin_points_value |-> r[alias].cabin_points_value,
               is_saver_award |-> r[alias].is_saver_award,
               cabin_class_seat_count |-> r[alias].cabin_class_seat_count,
               cabin_class_seat_count_string |-> r[alias].cabin_class_seat_count_string])
    ELSE None

\* the RewardFlightLatest built from one joined row; now is what Utc::now()
\* returns should scraped_at be unreadable
MapRow(r, now) ==
    [id |-> IF IsSome(r.rfl.id) THEN Some(ToString(Unwrap(r.rfl.id))) ELSE None,
     origin |-> UnwrapOr(r.rfl.origin, ""),
     destination |-> UnwrapOr(r.rfl.destination, ""),
     departure |-> IF IsSome(r.rfl.departure) THEN FormatDate(Unwrap(r.rfl.departure)) ELSE "",
     carrier_code |-> UnwrapOr(r.rfl.carrier_code, ""),
     scraped_at |-> UnwrapOr(r.rfl.scraped_at, now),
     award_economy |-> MapAward(r, "ae"),
     award_business |-> MapAward(r, "ab"),
     award_premium_economy |-> MapAward(r, "ape"),
     award_first |-> MapAward(r, "af")]

\* the rows of a page whose scraped_at is read from the clock
NeedsClock(rows) == {i \in 1..Len(rows) : IsNone(rows[i].rfl.scraped_at)}

\* rows.into_iter().map(..).collect(); nows gives the clock reading of each
\* row that needs one
MapRows(rows, nows) ==
    [i \in 1..Len(rows) |-> MapRow(rows[i], IF i \in DOMAIN nows THEN nows[i] ELSE 0)]

----------------------------------------------------------------------------
(* Pagination *)

\* a page count that truncates the quotient instead of rounding it up
TotalPages_Truncated(total_count, page_size) ==
    IF page_size = Usize(0)
    THEN IF total_count = 0 THEN Usize(0) ELSE USIZE_MAX
    ELSE IF Fits(page_size)
         THEN Usize(total_count \div Number(page_size))
         ELSE Usize(0)

\* (total_count as f64 / page_size as f64).ceil() as usize, total_count being
\* a count of rows (0 <= total_count < 2^31).  Below 2^53 both conversions
\* are exact and the quotient of two such numbers never rounds across an
\* integer, so the result is the integer ceiling; a page_size of 2^31 or more
\* converts to an f64 above total_count and the quotient lies in [0, 1);
\* n / 0.0 is infinite (cast: usize::MAX) and 0.0 / 0.0 is NaN (cast: 0).
TotalPages(total_count, page_size) ==
    IF page_size = Usize(0)
    THEN IF total_count = 0 THEN Usize(0) ELSE USIZE_MAX
    ELSE IF Fits(page_size)
         THEN IF total_count % Number(page_size) = 0
              THEN Usize(total_count \div Number(page_size))
              ELSE Usize(total_count \div Number(page_size) + 1)
         ELSE IF total_count = 0 THEN Usize(0) ELSE Usize(1)

\* Page { content, page_number, page_size, total_elements, total_pages }
Page(content, page_number, page_size, total_count) ==
    [content |-> content, page_number |-> page_number, page_size |-> page_size,
     total_elements |-> total_count, total_pages |-> TotalPages(total_count, page_size)]

NoPage == Page(<<>>, Usize(0), Usize(0), 0)

----------------------------------------------------------------------------
(* Requests *)

DefaultLatestPageSize == 10
DefaultCheapestPageSize == 50

\* web::Query<PageParams>: both parameters are optional
PageParams ==
    {[page_number |-> None, page_size |-> None]}
    \cup {[page_number |-> Some(p), page_size |-> Some(s)] : p \in 0..MaxPage, s \in 0..MaxSize}

\* ... and each is an i32: the negative ones are deserialized as well, and
\* so are the ends of the i32 range
SignedPageParams ==
    PageParams
    \cup {[page_number |-> Some(p), page_size |-> Some(s)] :
            p \in (0 - MaxNeg)..MaxPage, s \in (0 - MaxNeg)..MaxSize}
    \cup {[page_number |-> Some(x[1]), page_size |-> Some(x[2])] :
            x \in {<<2147483647, 1>>, <<2147483647, 2>>, <<0, 2147483647>>,
                   <<(0 - 2147483647) - 1, 1>>}}

CabinTypes == {"ECONOMY", "PREMIUM_ECONOMY", "BUSINESS", "FIRST"}

NoReq ==
    [search |-> "none", origin |-> "", destination |-> "", carrier_code |-> "",
     from_date |-> None, to_date |-> None, cabin_type |-> "",
     page_number |-> Usize(0), page_size |-> Usize(0)]

NoRequest ==
    [handler |-> "none", from |-> "", to |-> "", cabin_type |-> "",
     query |-> [page_number |-> None, page_size |-> None]]

NoMock == [pc |-> "none"]

NoCount == [tag |-> "none", value |-> 0]
NoResult == [tag |-> "none", page |-> NoPage]
NoResponse == [status |-> 0, body |-> "", page |-> NoPage]

\* let total_count: i64 = count_result.map(|row| row.0).unwrap_or(0);
TotalCount(cr) == IF cr.tag = "ok" THEN cr.value ELSE 0

\* let offset = (page_number * page_size) as i64;
Offset(a) == AsI64(WrappingMul(a.page_number, a.page_size))

\* .bind(page_size as i64)
Limit(a) == AsI64(a.page_size)

\* .bind(page_size as i64).bind(offset): PostgreSQL rejects a negative LIMIT
\* and a negative OFFSET, and fetch_all returns the error
BindsAccepted(a) == ~Limit(a).negative /\ ~Offset(a).negative

----------------------------------------------------------------------------
(* The handlers and the repository methods they await *)

\* the server is up over the store st and no request has arrived
Started(st) ==
    /\ reward_flights_latest = st.flights
    /\ award = st.award
    /\ pc = "idle"
    /\ req = NoReq
    /\ count_result = NoCount
    /\ result = NoResult
    /\ response = NoResponse
    /\ row = None
    /\ mapped = None
    /\ prev = None
    /\ request = NoRequest
    /\ queries = <<>>
    /\ wrote = FALSE

Idle(st) ==
    /\ Started(st)
    /\ searches = <<>>
    /\ mock = NoMock

Init == \E st \in Stores : Idle(st)

BadRequest(body) ==
    /\ pc' = "done"
    /\ response' = [status |-> 400, body |-> body, page |-> NoPage]
    /\ UNCHANGED <<req, count_result, result>>

CallRepository(a) ==
    /\ pc' = "count"
    /\ req' = a
    /\ UNCHANGED <<count_result, result, response>>

\* GET .../origin/{origin}/destination/{destination}/from/{from}/to/{to}: from
\* the request to the call of the repository
LatestRewardFlights(params) ==
    /\ pc = "idle"
    /\ \E from \in DateStrings, to \in DateStrings, query \in params :
         LET page_number == AsUsize(UnwrapOr(query.page_number, 0))
             page_size == AsUsize(UnwrapOr(query.page_size, DefaultLatestPageSize))
             from_date == ParseDate(from)
             to_date == ParseDate(to)
         IN  /\ request' = [handler |-> "latest", from |-> from, to |-> to,
                            cabin_type |-> "", query |-> query]
             /\ IF IsNone(from_date)
                THEN BadRequest("Invalid 'from' date format. Expected YYYY-MM-DD")
                ELSE IF IsNone(to_date)
                THEN BadRequest("Invalid 'to' date format. Expected YYYY-MM-DD")
                ELSE CallRepository(
                       [search |-> "range", origin |-> RequestedRoute[1],
                        destination |-> RequestedRoute[2], carrier_code |-> "VS",
                        from_date |-> Unwrap(from_date), to_date |-> Unwrap(to_date),
                        cabin_type |-> "", page_number |-> page_number,
                        page_size |-> page_size])
    /\ UNCHANGED <<reward_flights_latest, award, row, mapped, prev, queries, wrote, aside>>

latest_reward_flights == LatestRewardFlights(PageParams)

\* GET .../origin/{origin}/destination/{destination}/cabin/{cabin_type}/cheapest
CheapestRewardFlights(params) ==
    /\ pc = "idle"
    /\ \E cabin_type_str \in CabinTypes, query \in params :
         LET page_number == AsUsize(UnwrapOr(query.page_number, 0))
             page_size == AsUsize(UnwrapOr(query.page_size, DefaultCheapestPageSize))
         IN  /\ request' = [handler |-> "cheapest", from |-> "", to |-> "",
                            cabin_type |-> cabin_type_str, query |-> query]
             /\ IF cabin_type_str \notin {"ECONOMY", "PREMIUM_ECONOMY", "BUSINESS"}
                THEN BadRequest("Invalid cabin type. Expected ECONOMY, PREMIUM_ECONOMY, or BUSINESS")
                ELSE CallRepository(
                       [search |-> "cheapest", origin |-> RequestedRoute[1],
                        destination |-> RequestedRoute[2], carrier_code |-> "",
                        from_date |-> None, to_date |-> None,
                        cabin_type |-> cabin_type_str, page_number |-> page_number,
                        page_size |-> page_size])
    /\ UNCHANGED <<reward_flights_latest, award, row, mapped, prev, queries, wrote, aside>>

cheapest_reward_flights == CheapestRewardFlights(PageParams)

\* a count query that is issued again when it failed
Counted_Retrying(ok, n) ==
    /\ count_result' = IF ok THEN [tag |-> "ok", value |-> n] ELSE [tag |-> "err", value |-> 0]
    /\ pc' = IF ok THEN "page" ELSE "count"
    /\ queries' = Append(queries, "count")
    /\ UNCHANGED <<reward_flights_latest, award, req, result, response, row, mapped, prev,
                   request, wrote, aside>>

\* the count query ran: fetch_one(..).await gave Ok((n,)) or an sqlx::Error
Counted(ok, n) ==
    /\ count_result' = IF ok THEN [tag |-> "ok", value |-> n] ELSE [tag |-> "err", value |-> 0]
    /\ pc' = "page"
    /\ queries' = Append(queries, "count")
    /\ UNCHANGED <<reward_flights_latest, award, req, result, response, row, mapped, prev,
                   request, wrote, aside>>

\* fetch_all(..).await? failed: the method returns Err, the handler answers 500
PageFailed(body) ==
    /\ result' = [tag |-> "err", page |-> NoPage]
    /\ response' = [status |-> 500, body |-> body, page |-> NoPage]

\* the rows are mapped, the Page is built and the handler answers 200 with it
PageFetched(rows, nows) ==
    LET page == Page(MapRows(rows, nows), req.page_number, req.page_size,
                     TotalCount(count_result))
    IN  /\ result' = [tag |-> "ok", page |-> page]
        /\ response' = [status |-> 200, body |-> "", page |-> page]

\* find_by_origin_and_destination_and_carrier_code_and_departure_between, up
\* to the await of the count query
range_count_query ==
    /\ pc = "count"
    /\ req.search = "range"
    /\ \E ok \in BOOLEAN : Counted(ok, RangeCount(reward_flights_latest, req))

\* ... and from there to the handler's response
range_page_query ==
    /\ pc = "page"
    /\ req.search = "range"
    /\ \/ PageFailed("Failed to fetch reward flights")
       \/ \E ordered \in OrderBy(RangeRows(reward_flights_latest, award, req),
                                 [r \in RangeRows(reward_flights_latest, award, req) |->
                                     RangeOrderKey(r)]) :
            LET rows == LimitOffset(ordered, Limit(req).magnitude, Offset(req).magnitude)
            IN  /\ BindsAccepted(req)
                /\ \E nows \in [NeedsClock(rows) -> Clock] : PageFetched(rows, nows)
    /\ pc' = "done"
    /\ queries' = Append(queries, "page")
    /\ UNCHANGED <<reward_flights_latest, award, req, count_result, row, mapped, prev,
                   request, wrote, aside>>

\* find_all_ordered_by_lowest_cabin_points_and_origin_and_destination, up to
\* the await of the count query
cheapest_count_query ==
    /\ pc = "count"
    /\ req.search = "cheapest"
    /\ \E ok \in BOOLEAN : Counted(ok, CheapestCount(reward_flights_latest, award, req))

\* ... and from there to the handler's response
cheapest_page_query ==
    /\ pc = "page"
    /\ req.search = "cheapest"
    /\ \/ PageFailed("Failed to fetch cheapest reward flights")
       \/ \E ordered \in OrderBy(CheapestRows(reward_flights_latest, award, req),
                                 [r \in CheapestRows(reward_flights_latest, award, req) |->
                                     CheapestOrderKey(r, req.cabin_type)]) :
            LET rows == LimitOffset(ordered, Limit(req).magnitude, Offset(req).magnitude)
            IN  /\ BindsAccepted(req)
                /\ \E nows \in [NeedsClock(rows) -> Clock] : PageFetched(rows, nows)
    /\ pc' = "done"
    /\ queries' = Append(queries, "page")
    /\ UNCHANGED <<reward_flights_latest, award, req, count_result, row, mapped, prev,
                   request, wrote, aside>>

\* the response is sent; the server takes the next request
respond ==
    /\ pc = "done"
    /\ pc' = "idle"
    /\ req' = NoReq
    /\ count_result' = NoCount
    /\ result' = NoResult
    /\ response' = NoResponse
    /\ prev' = None
    /\ request' = NoRequest
    /\ queries' = <<>>
    /\ wrote' = FALSE
    /\ UNCHANGED <<reward_flights_latest, award, row, mapped, aside>>

Next ==
    \/ latest_reward_flights
    \/ cheapest_reward_flights
    \/ range_count_query
    \/ range_page_query
    \/ cheapest_count_query
    \/ cheapest_page_query
    \/ respond

Spec == Init /\ [][Next]_vars

----------------------------------------------------------------------------
(* The same request sent a second time *)

\* the caller keeps what the first exchange returned and sends the request
\* again: the handler derives the same arguments and calls the repository
rerun ==
    /\ pc = "done"
    /\ req.search # "none"
    /\ prev = None
    /\ prev' = Some([count_result |-> count_result, result |-> result])
    /\ pc' = "count"
    /\ count_result' = NoCount
    /\ result' = NoResult
    /\ response' = NoResponse
    /\ queries' = <<>>
    /\ UNCHANGED <<reward_flights_latest, award, req, row, mapped, request, wrote, aside>>

InitRerun == \E t \in FlightTables : Idle([flights |-> t, award |-> NoAwards])

NextRerun == Next \/ rerun

SpecRerun == InitRerun /\ [][NextRerun]_vars

----------------------------------------------------------------------------
(* The row mapping closure on its own, over rows of nullable cells *)

AwardCells ==
    {[id |-> i, flight_id |-> Some(1), cabin_points_value |-> p, is_saver_award |-> s,
      cabin_class_seat_count |-> c, cabin_class_seat_count_string |-> t] :
        i \in {None, Some(7)}, p \in {None, Some(10)}, s \in {None, Some(TRUE)},
        c \in {None, Some(2)}, t \in {None, Some("2")}}

FullAward == AwardRow(1, 1)

FlightCells ==
    {[id |-> i, origin |-> Some("LHR"), destination |-> Some("JFK"),
      carrier_code |-> Some("VS"), departure |-> d, scraped_at |-> t] :
        i \in {None, Some(1)}, d \in {None, Some(<<2024, 6, 1>>)}, t \in {None, Some(1)}}

\* one cabin's five columns take every combination of NULL and value; the
\* other three cabins are all NULL or all present
MapperRows ==
    {[rfl |-> f,
      ae |-> IF v = "ae" THEN a ELSE o, ab |-> IF v = "ab" THEN a ELSE o,
      ape |-> IF v = "ape" THEN a ELSE o, af |-> IF v = "af" THEN a ELSE o] :
        f \in FlightCells, v \in Cabins, a \in AwardCells, o \in {NullAward, FullAward}}

InitMap ==
    /\ reward_flights_latest = {}
    /\ award = NoAwards
    /\ pc = "row"
    /\ req = NoReq
    /\ count_result = NoCount
    /\ result = NoResult
    /\ response = NoResponse
    /\ row \in {Some(r) : r \in MapperRows}
    /\ mapped = None
    /\ prev = None
    /\ request = NoRequest
    /\ queries = <<>>
    /\ wrote = FALSE
    /\ searches = <<>>
    /\ mock = NoMock

\* one application of the closure
map_row ==
    /\ pc = "row"
    /\ \E now \in Clock : mapped' = Some(MapRow(Unwrap(row), now))
    /\ pc' = "mapped"
    /\ UNCHANGED <<reward_flights_latest, award, req, count_result, result, response, row, prev,
                   request, queries, wrote, aside>>

NextMap == map_row

SpecMap == InitMap /\ [][NextMap]_vars

----------------------------------------------------------------------------
(* Properties *)

Done == pc = "done"
Returned == pc = "done" /\ result.tag = "ok"
Content == result.page.content

\* the usize n is the integer ceiling of t / s, for a count t >= 0 and a
\* usize s >= 1
IsCeiling(n, t, s) ==
    IF Fits(s) /\ Number(s) < t
    THEN /\ Fits(n)
         /\ Number(n) <= t
         /\ Number(n) * Number(s) >= t
         /\ (Number(n) - 1) * Number(s) < t
    ELSE n = Usize(IF t = 0 THEN 0 ELSE 1)

\* p * s >= t for a count t and two usize p and s
Beyond(p, s, t) ==
    \/ MulOverflows(p, s)
    \/ ~Fits(WrappingMul(p, s))
    \/ Number(WrappingMul(p, s)) >= t

\* min(s, max(0, t - p * s)) for a count t and two usize p and s
ExpectedLength(t, p, s) ==
    IF Beyond(p, s, t) THEN 0 ELSE AtMost(s, t - Number(WrappingMul(p, s)))

\* the date a formatted departure stands for
DepartureOf(f) == ParseDate(f.departure)

\* C1: when the count query of a search fails, the search returns an error
\* to its caller, never a successful Page standing in for the failed count.
C1_CountFailureReturnsError ==
    (Done /\ count_result.tag = "err") => result.tag = "err"

AwardField ==
    [ae |-> "award_economy", ab |-> "award_business",
     ape |-> "award_premium_economy", af |-> "award_first"]

\* C2: for every mapped row and each of the four cabins, the offer is present
\* in the mapped flight if and only if the cabin's identifier column of the
\* row is non-null, whatever the cabin's attribute columns hold.
C2_OfferIffIdentifier ==
    pc = "mapped" =>
        \A c \in Cabins :
            IsSome(Unwrap(mapped)[AwardField[c]]) <=> IsSome(Unwrap(row)[c].id)

\* a row whose economy identifier is NULL beside a non-null points column was
\* mapped to no economy offer, while its business identifier gave an offer
C2_Witness ==
    /\ pc = "mapped"
    /\ IsNone(Unwrap(row).ae.id)
    /\ IsSome(Unwrap(row).ae.cabin_points_value)
    /\ IsNone(Unwrap(mapped).award_economy)
    /\ IsSome(Unwrap(row).ab.id)
    /\ IsSome(Unwrap(mapped).award_business)

\* C3: for every total count T >= 0 and page size s >= 1 the Page a search
\* returns has total_pages = ceil(T / s), T being its total_elements.
C3_TotalPagesIsCeiling ==
    (Returned /\ result.page.page_size # Usize(0)) =>
        IsCeiling(result.page.total_pages, result.page.total_elements, result.page.page_size)

\* a Page of three elements in pages of two: two pages
C3_Witness ==
    /\ Returned
    /\ result.page.total_elements = 3
    /\ result.page.page_size = Usize(2)
    /\ result.page.total_pages = Usize(2)

\* C4: for p >= 0 and s >= 1 a search returns a Page with
\* len(content) = min(s, max(0, T - p*s)), T being its total_elements.
C4_ContentLength ==
    (Returned /\ result.page.page_size # Usize(0)) =>
        Len(Content) = ExpectedLength(result.page.total_elements, result.page.page_number,
                                      result.page.page_size)

\* C5: against one store state the value of a search's count query equals the
\* number of rows its page query yields with LIMIT/OFFSET removed.
C5_CountEqualsRows ==
    (pc = "page" /\ count_result.tag = "ok") =>
        count_result.value =
            Cardinality(IF req.search = "range"
                        THEN RangeRows(reward_flights_latest, award, req)
                        ELSE CheapestRows(reward_flights_latest, award, req))

\* the requested cabin's offer of a returned flight
RequestedOffer(f) ==
    IF req.cabin_type = "ECONOMY" THEN f.award_economy
    ELSE IF req.cabin_type = "PREMIUM_ECONOMY" THEN f.award_premium_economy
    ELSE f.award_business

PointsOf(f) == Unwrap(Unwrap(RequestedOffer(f)).cabin_points_value)

\* C6: every flight cheapestSearch returns matches the requested origin and
\* destination and has, for the requested cabin, a non-null points value and
\* a seat count > 0; the sequence is non-decreasing by that points value and,
\* among equal points values, non-decreasing by departure date.
C6_CheapestFilteredAndOrdered ==
    (Returned /\ req.search = "cheapest") =>
        /\ \A i \in 1..Len(Content) :
             /\ Content[i].origin = req.origin
             /\ Content[i].destination = req.destination
             /\ IsSome(RequestedOffer(Content[i]))
             /\ IsSome(Unwrap(RequestedOffer(Content[i])).cabin_points_value)
             /\ IsSome(Unwrap(RequestedOffer(Content[i])).cabin_class_seat_count)
             /\ Unwrap(Unwrap(RequestedOffer(Content[i])).cabin_class_seat_count) > 0
        /\ \A i \in 1..Len(Content) : \A j \in (i + 1)..Len(Content) :
             /\ PointsOf(Content[i]) <= PointsOf(Content[j])
             /\ PointsOf(Content[i]) = PointsOf(Content[j]) =>
                  /\ IsSome(DepartureOf(Content[i]))
                  /\ IsSome(DepartureOf(Content[j]))
                  /\ DateLE(Unwrap(DepartureOf(Content[i])), Unwrap(DepartureOf(Content[j])))

\* a page of two business offers of equal points on different days
C6_Witness ==
    /\ Returned
    /\ req.search = "cheapest"
    /\ req.cabin_type = "BUSINESS"
    /\ Len(Content) = 2
    /\ PointsOf(Content[1]) = PointsOf(Content[2])
    /\ Content[1].departure # Content[2].departure

\* C7: every flight rangeSearch returns has the requested origin, destination
\* and carrier code and a departure date d with fromDate <= d <= toDate; the
\* sequence is non-decreasing by departure date.
C7_RangeFilteredAndOrdered ==
    (Returned /\ req.search = "range") =>
        /\ \A i \in 1..Len(Content) :
             /\ Content[i].origin = req.origin
             /\ Content[i].destination = req.destination
             /\ Content[i].carrier_code = req.carrier_code
             /\ IsSome(DepartureOf(Content[i]))
             /\ DateLE(req.from_date, Unwrap(DepartureOf(Content[i])))
             /\ DateLE(Unwrap(DepartureOf(Content[i])), req.to_date)
        /\ \A i \in 1..Len(Content) : \A j \in (i + 1)..Len(Content) :
             DateLE(Unwrap(DepartureOf(Content[i])), Unwrap(DepartureOf(Content[j])))

\* a page of two flights, the first departing on fromDate and the second, a
\* later one, on toDate, out of a table that also holds a flight outside the
\* range or off the route
C7_Witness ==
    /\ Returned
    /\ req.search = "range"
    /\ Len(Content) = 2
    /\ Content[1].departure = FormatDate(req.from_date)
    /\ Content[2].departure = FormatDate(req.to_date)
    /\ req.from_date # req.to_date
    /\ Cardinality(reward_flights_latest) = 3

\* C8: re-running a search with the same parameters against an unchanged
\* store yields an identical Page, tied flights in the same order included
\* (stated for two runs in which no query failed).
C8_RerunSamePage ==
    (Returned /\ count_result.tag = "ok" /\ IsSome(prev)
        /\ Unwrap(prev).result.tag = "ok" /\ Unwrap(prev).count_result.tag = "ok") =>
        result.page = Unwrap(prev).result.page

\* C9: a request with page size 0 is rejected before the pagination
\* computation: no search with page_size = 0 returns a successful Page.
C9_ZeroPageSizeRejected ==
    result.tag = "ok" => result.page.page_size # Usize(0)

\* C10: a data-access failure in the count query or in the page query reaches
\* the caller as Err from the repository and HTTP 500 from the handler, never
\* as the Ok / HTTP 200 of a successful search.
C10_FailureIsDistinguishable ==
    (Done /\ (count_result.tag = "err" \/ result.tag = "err")) =>
        (result.tag = "err" /\ response.status = 500)

\* the number of flights the store holds for the request of the search in
\* flight: what its count query selects
Matching ==
    IF req.search = "range"
    THEN RangeCount(reward_flights_latest, req)
    ELSE CheapestCount(reward_flights_latest, award, req)

\* C11: a search whose page number lies beyond the last valid page
\* (p*s >= T, s >= 1, T the number of matching flights) returns a Page with
\* empty content, the requested page number unclamped, total_elements = T and
\* total_pages = ceil(T / s).
C11_BeyondLastPageIsEmpty ==
    (Returned /\ req.page_size # Usize(0)
        /\ Beyond(req.page_number, req.page_size, Matching)) =>
        /\ Len(Content) = 0
        /\ result.page.page_number = req.page_number
        /\ result.page.total_elements = Matching
        /\ IsCeiling(result.page.total_pages, Matching, req.page_size)

\* C12: a row whose departure or scraped_at column is unreadable is not mapped
\* to a flight: no mapped flight carries an empty string in place of the
\* unreadable departure, nor a clock reading in place of the unreadable
\* scraped_at.
C12_UnreadableRequiredColumnIsError ==
    pc = "mapped" =>
        /\ IsNone(Unwrap(row).rfl.departure) =>
             ~(IsSome(mapped) /\ Unwrap(mapped).departure = "")
        /\ IsNone(Unwrap(row).rfl.scraped_at) =>
             ~(IsSome(mapped) /\ Unwrap(mapped).scraped_at \in Clock)

\* the request in flight carries a path segment the handlers reject: a
\* {from} or {to} that is no date, or a {cabin_type} outside the three
Malformed ==
    \/ /\ request.handler = "latest"
       /\ \/ request.from \notin {FormatDate(d) : d \in Dates}
          \/ request.to \notin {FormatDate(d) : d \in Dates}
    \/ /\ request.handler = "cheapest"
       /\ request.cabin_type \notin {"ECONOMY", "PREMIUM_ECONOMY", "BUSINESS"}

\* C13: a request with a malformed 'from' or 'to' date, or with a cabin type
\* outside ECONOMY, PREMIUM_ECONOMY, BUSINESS, is answered with a 400-class
\* status and reaches no repository method: no count query and no page query
\* is issued for it.
C13_InvalidInputRejectedBeforeRepository ==
    Malformed =>
        /\ pc = "done"
        /\ response.status \in 400..499
        /\ req = NoReq
        /\ queries = <<>>
        /\ count_result = NoCount
        /\ result = NoResult

\* a range request with a good {from} and a bad {to} was answered 400
C13_Witness ==
    /\ pc = "done"
    /\ request.handler = "latest"
    /\ request.from = "2024-05-31"
    /\ request.to = "2024-13-01"
    /\ response.status = 400
    /\ queries = <<>>

----------------------------------------------------------------------------
(* Searches in flight side by side: the server polls the futures of several
   requests, each with its own arguments and locals, on one repository *)

SearchCount(flights, aw, a) ==
    IF a.search = "range" THEN RangeCount(flights, a) ELSE CheapestCount(flights, aw, a)

SearchRows(flights, aw, a) ==
    IF a.search = "range" THEN RangeRows(flights, aw, a) ELSE CheapestRows(flights, aw, a)

SearchOrderKey(flights, aw, a) ==
    [r \in SearchRows(flights, aw, a) |->
        IF a.search = "range" THEN RangeOrderKey(r) ELSE CheapestOrderKey(r, a.cabin_type)]

\* what the await of the count query can leave in count_result
CountOutcomes(flights, aw, a) ==
    {[tag |-> "ok", value |-> SearchCount(flights, aw, a)], [tag |-> "err", value |-> 0]}

\* what the method can return once its count query left cr
PageOutcomes(flights, aw, a, cr) ==
    {[tag |-> "err", page |-> NoPage]}
    \cup UNION {LET rows == LimitOffset(ordered, Limit(a).magnitude, Offset(a).magnitude)
                IN  {[tag |-> "ok",
                      page |-> Page(MapRows(rows, nows), a.page_number, a.page_size,
                                    TotalCount(cr))] :
                        nows \in [NeedsClock(rows) -> Clock]} :
                ordered \in IF BindsAccepted(a)
                            THEN OrderBy(SearchRows(flights, aw, a), SearchOrderKey(flights, aw, a))
                            ELSE {}}

RangeArgs(from_date, to_date, page_number, page_size) ==
    [search |-> "range", origin |-> RequestedRoute[1], destination |-> RequestedRoute[2],
     carrier_code |-> "VS", from_date |-> from_date, to_date |-> to_date, cabin_type |-> "",
     page_number |-> page_number, page_size |-> page_size]

CheapestArgs(cabin_type, page_number, page_size) ==
    [search |-> "cheapest", origin |-> RequestedRoute[1], destination |-> RequestedRoute[2],
     carrier_code |-> "", from_date |-> None, to_date |-> None, cabin_type |-> cabin_type,
     page_number |-> page_number, page_size |-> page_size]

\* the calls the in-flight searches are taken from
ConcArgs ==
    {RangeArgs(<<2024, 5, 31>>, <<2024, 6, 1>>, Usize(0), Usize(1)),
     RangeArgs(<<2024, 5, 31>>, <<2024, 6, 1>>, Usize(1), Usize(1)),
     RangeArgs(<<2024, 6, 1>>, <<2024, 6, 1>>, Usize(0), Usize(2)),
     CheapestArgs("ECONOMY", Usize(0), Usize(1)),
     CheapestArgs("ECONOMY", Usize(0), Usize(2)),
     CheapestArgs("BUSINESS", Usize(0), Usize(2))}

\* the base flights bare, and with an economy offer of equal points on each
\* of the two flights of the requested route
ConcStores ==
    {[flights |-> BaseFlights, award |-> NoAwards],
     [flights |-> BaseFlights, award |-> AwardTables({<<"ae", 1, 1>>, <<"ae", 2, 1>>})]}

InitConc ==
    /\ \E st \in ConcStores : Started(st)
    /\ mock = NoMock
    /\ searches \in [1..NumSearches ->
                        {[pc |-> "count", req |-> a, count_result |-> NoCount,
                          result |-> NoResult] : a \in ConcArgs}]

\* a count that lives in a field all searches share: the last one stored
LocalCount_Shared(i) ==
    searches[CHOOSE j \in DOMAIN searches : searches[j].count_result.tag # "none"].count_result

\* let total_count: a local of the call, as are its arguments
LocalCount(i) == searches[i].count_result

\* search i awaits its count query
search_count(i) ==
    /\ searches[i].pc = "count"
    /\ \E cr \in CountOutcomes(reward_flights_latest, award, searches[i].req) :
         searches' = [searches EXCEPT ![i].count_result = cr, ![i].pc = "page"]
    /\ UNCHANGED <<reward_flights_latest, award, exchange, mock>>

\* search i awaits its page query, maps the rows and returns
search_page(i) ==
    /\ searches[i].pc = "page"
    /\ \E res \in PageOutcomes(reward_flights_latest, award, searches[i].req, LocalCount(i)) :
         searches' = [searches EXCEPT ![i].result = res, ![i].pc = "returned"]
    /\ UNCHANGED <<reward_flights_latest, award, exchange, mock>>

NextConc == \E i \in 1..NumSearches : search_count(i) \/ search_page(i)

SpecConc == InitConc /\ [][NextConc]_vars

\* what the search with arguments a can return when it is the only one
Alone(a) ==
    UNION {PageOutcomes(reward_flights_latest, award, a, cr) :
           cr \in CountOutcomes(reward_flights_latest, award, a)}

\* C14: in every interleaving of the in-flight searches against an unchanged
\* store, what a search returns is what the same search can return when it
\* runs alone: no search sees anything another search computed.
C14_SearchesDoNotInterfere ==
    \A i \in DOMAIN searches :
        searches[i].pc = "returned" => searches[i].result \in Alone(searches[i].req)

\* search 2 ran both of its queries between the count query and the page
\* query of search 1, and returned a total other than the count search 1 holds
C14_Witness ==
    /\ DOMAIN searches = 1..NumSearches
    /\ searches[1].pc = "page"
    /\ searches[1].count_result.tag = "ok"
    /\ searches[2].pc = "returned"
    /\ searches[2].result.tag = "ok"
    /\ searches[2].count_result.tag = "ok"
    /\ searches[2].result.page.total_elements # searches[1].count_result.value

----------------------------------------------------------------------------
(* MockRewardFlightRepository: the implementation of the trait that
   generates its flights *)

IsLeap(y) == (y % 4 = 0 /\ y % 100 # 0) \/ y % 400 = 0

DaysInMonth(y, m) ==
    IF m = 2 THEN (IF IsLeap(y) THEN 29 ELSE 28)
    ELSE IF m \in {4, 6, 9, 11} THEN 30
    ELSE 31

\* NaiveDate::MAX, the last date a NaiveDate can hold
MAX_DATE == <<262142, 12, 31>>

\* NaiveDate::succ_opt: the next day, None after the last representable date
SuccOpt(d) ==
    IF d = MAX_DATE THEN None
    ELSE IF d[3] < DaysInMonth(d[1], d[2]) THEN Some(<<d[1], d[2], d[3] + 1>>)
    ELSE IF d[2] < 12 THEN Some(<<d[1], d[2] + 1, 1>>)
    ELSE Some(<<d[1] + 1, 1, 1>>)

\* NaiveDate::checked_add_days(Days::new(n))
RECURSIVE CheckedAddDays(_, _)
CheckedAddDays(d, n) ==
    IF n = 0 THEN Some(d)
    ELSE IF IsNone(SuccOpt(d)) THEN None
    ELSE CheckedAddDays(Unwrap(SuccOpt(d)), n - 1)

\* NaiveDate's to_string(): a year beyond 9999 is written with its sign
DisplayDate(d) ==
    IF d[1] <= 9999 THEN FormatDate(d)
    ELSE "+" \o ToString(d[1]) \o "-" \o Pad2(d[2]) \o "-" \o Pad2(d[3])

\* the dates given to the mock: around the end of a February and at the end
\* of the calendar
MockDates ==
    {<<2024, 2, 28>>, <<2024, 2, 29>>, <<2024, 3, 1>>,
     <<MAX_DATE[1], 12, 30>>, MAX_DATE}

MockAward(name, points, saver, seats) ==
    Some([id |-> Some(name), cabin_points_value |-> Some(points),
          is_saver_award |-> Some(saver), cabin_class_seat_count |-> Some(seats),
          cabin_class_seat_count_string |-> Some(ToString(seats))])

\* the flight the range loop pushes for current_date; date keeps the
\* NaiveDate behind the departure string
MockRangeFlight(current_date, now) ==
    [id |-> Some("mock-LHR-JFK-" \o DisplayDate(current_date)),
     origin |-> "LHR", destination |-> "JFK",
     departure |-> DisplayDate(current_date), date |-> current_date,
     carrier_code |-> "VS", scraped_at |-> now,
     award_economy |-> MockAward("mock-economy-id", 10000, TRUE, 5),
     award_business |-> MockAward("mock-business-id", 30000, FALSE, 2),
     award_premium_economy |-> MockAward("mock-premium-economy-id", 20000, TRUE, 3),
     award_first |-> None]

\* the flight of index i of the cheapest search's for i in 0..10
MockCheapestFlight(i, today, now) ==
    LET flight_date == UnwrapOr(CheckedAddDays(today, i), today)
    IN  [id |-> Some("mock-LHR-JFK-" \o ToString(i)),
         origin |-> "LHR", destination |-> "JFK",
         departure |-> DisplayDate(flight_date), date |-> flight_date,
         carrier_code |-> "VS", scraped_at |-> now,
         award_economy |->
             MockAward("mock-economy-id-" \o ToString(i), 10000 + i * 1000, TRUE, 5),
         award_business |->
             MockAward("mock-business-id-" \o ToString(i), 30000 + i * 2000, FALSE, 2),
         award_premium_economy |->
             MockAward("mock-premium-economy-id-" \o ToString(i), 20000 + i * 1500, TRUE, 3),
         award_first |-> None]

\* a_points / b_points of the comparator
MockPoints(f, cabin_type) ==
    IF cabin_type = "ECONOMY" THEN Unwrap(f.award_economy).cabin_points_value
    ELSE IF cabin_type = "PREMIUM_ECONOMY" THEN Unwrap(f.award_premium_economy).cabin_points_value
    ELSE IF cabin_type = "BUSINESS" THEN Unwrap(f.award_business).cabin_points_value
    ELSE None

\* a.departure.cmp(&b.departure) is not Greater: the strings of two dates of
\* the same width compare as the dates do, and '+' sorts before every digit
DepartureLE(a, b) ==
    IF (a.date[1] <= 9999) = (b.date[1] <= 9999) THEN DateLE(a.date, b.date)
    ELSE a.date[1] > 9999

\* the closure of flights.sort_by does not answer Greater for (a, b)
MockLE(a, b, cabin_type) ==
    LET a_points == MockPoints(a, cabin_type)
        b_points == MockPoints(b, cabin_type)
    IN  IF IsSome(a_points) /\ IsSome(b_points) THEN Unwrap(a_points) <= Unwrap(b_points)
        ELSE IF IsSome(a_points) THEN TRUE
        ELSE IF IsSome(b_points) THEN FALSE
        ELSE DepartureLE(a, b)

\* x put into the sorted sequence t behind everything it is not less than
RECURSIVE MockInsert(_, _, _)
MockInsert(t, x, cabin_type) ==
    IF t = <<>> THEN <<x>>
    ELSE IF MockLE(t[Len(t)], x, cabin_type) THEN Append(t, x)
    ELSE Append(MockInsert(SubSeq(t, 1, Len(t) - 1), x, cabin_type), t[Len(t)])

\* flights.sort_by(..): a stable sort
RECURSIVE MockSort(_, _)
MockSort(flights, cabin_type) ==
    IF flights = <<>> THEN <<>>
    ELSE MockInsert(MockSort(SubSeq(flights, 1, Len(flights) - 1), cabin_type),
                    flights[Len(flights)], cabin_type)

\* From "Calculate total elements" to the Ok(Page): the result of the mock
\* call.  An overflowing page_number * page_size or start + page_size panics
\* where the build checks overflow and wraps where it does not; a slice whose
\* end lies before its start panics.
MockPaginate(flights, page_number, page_size, overflow_checks) ==
    LET start == WrappingMul(page_number, page_size)
        end == AtMost(WrappingAdd(start, page_size), Len(flights))
        within == Fits(start) /\ Number(start) < Len(flights)
    IN  IF overflow_checks /\ (\/ MulOverflows(page_number, page_size)
                               \/ AddOverflows(start, page_size))
        THEN [tag |-> "panic", page |-> NoPage]
        ELSE IF within /\ end < Number(start)
        THEN [tag |-> "panic", page |-> NoPage]
        ELSE [tag |-> "ok",
              page |-> Page(IF within THEN SubSeq(flights, Number(start) + 1, end) ELSE <<>>,
                            page_number, page_size, Len(flights))]

\* page numbers and sizes of the calls: small ones, pages past the last
\* flight, the page number 2^63, whose product with 2 no longer fits a usize,
\* and the page size usize::MAX
MockPageNumbers == {Usize(p) : p \in 0..(MaxPage + 2)} \cup {<<128, 0, 0, 0, 0, 0, 0, 0>>}
MockPageSizes == {Usize(n) : n \in 0..MaxSize \cup {4}} \cup {USIZE_MAX}

\* today is the date of the local clock when the call begins; clock_ok turns
\* FALSE when a reading of the clock panics
MockCalls ==
    {[pc |-> "called", op |-> o, cabin_type |-> c, from_date |-> f, to_date |-> t,
      today |-> f, clock_ok |-> TRUE, overflow_checks |-> k, page_number |-> p,
      page_size |-> s,
      current_date |-> f, flights |-> <<>>, result |-> NoResult] :
        o \in {"range"}, c \in {""}, f \in MockDates, t \in MockDates, k \in BOOLEAN,
        p \in MockPageNumbers, s \in MockPageSizes}
    \cup
    {[pc |-> "called", op |-> o, cabin_type |-> c, from_date |-> f, to_date |-> t,
      today |-> f, clock_ok |-> TRUE, overflow_checks |-> k, page_number |-> p,
      page_size |-> s,
      current_date |-> f, flights |-> <<>>, result |-> NoResult] :
        o \in {"cheapest"}, c \in CabinTypes, f \in MockDates, t \in {MAX_DATE},
        k \in BOOLEAN, p \in MockPageNumbers, s \in MockPageSizes}

\* What Utc::now() can give in the ten turns of the cheapest search's loop,
\* one reading per turn: the clock does not run backwards.
MockNows == {n \in [1..10 -> Clock] : \A i \in 1..9 : n[i] <= n[i + 1]}

\* The date of the clock at each of the twenty readings of those ten turns,
\* the call having begun on today: reading 2i - 1 is the Local::now() of
\* turn i and reading 2i its Utc::now().  Midnight passes before reading k
\* (never, for k = 21), at most once during a call.  After NaiveDate::MAX
\* there is no date: the reading is None, and now() panics on it.
MockTodays(today) ==
    {[r \in 1..20 |-> IF r < k THEN Some(today) ELSE SuccOpt(today)] : k \in 1..21}

InitMock ==
    /\ Started([flights |-> {}, award |-> NoAwards])
    /\ searches = <<>>
    /\ mock \in MockCalls

\* one turn of while current_date <= to_date { .. }
mock_range_loop ==
    /\ mock.pc = "called"
    /\ mock.op = "range"
    /\ DateLE(mock.current_date, mock.to_date)
    /\ Len(mock.flights) < MaxLoop
    /\ \E now \in Clock :
         /\ \A i \in 1..Len(mock.flights) : mock.flights[i].scraped_at <= now
         /\ mock' = [mock EXCEPT
                       !.flights = Append(@, MockRangeFlight(mock.current_date, now)),
                       !.current_date = UnwrapOr(SuccOpt(mock.current_date),
                                                 mock.current_date)]
    /\ UNCHANGED <<reward_flights_latest, award, exchange, searches>>

\* the loop is left; the generated flights are paginated
mock_range_return ==
    /\ mock.pc = "called"
    /\ mock.op = "range"
    /\ ~DateLE(mock.current_date, mock.to_date)
    /\ mock' = [mock EXCEPT
                  !.pc = "returned",
                  !.result = MockPaginate(mock.flights, mock.page_number, mock.page_size,
                                          mock.overflow_checks)]
    /\ UNCHANGED <<reward_flights_latest, award, exchange, searches>>

\* find_all_ordered_by_lowest_cabin_points_and_origin_and_destination of the
\* mock: ten flights, each with the date and the instant its turn of the loop
\* reads from the clock, sorted, paginated.  A reading the clock cannot give
\* panics inside now(): the call ends in the turn of that reading, with the
\* flights of the turns before it pushed and nothing returned.
mock_cheapest ==
    /\ mock.pc = "called"
    /\ mock.op = "cheapest"
    /\ \E todays \in MockTodays(mock.today), nows \in MockNows :
         LET pushed(n) == [k \in 1..n |->
                              MockCheapestFlight(k - 1, Unwrap(todays[2 * k - 1]), nows[k])]
             flights == MockSort(pushed(10), mock.cabin_type)
         IN  IF \E r \in 1..20 : IsNone(todays[r])
             THEN LET r == CHOOSE x \in 1..20 :
                              IsNone(todays[x]) /\ \A y \in 1..(x - 1) : IsSome(todays[y])
                  IN  mock' = [mock EXCEPT
                                 !.pc = "returned",
                                 !.clock_ok = FALSE,
                                 !.flights = pushed((r + 1) \div 2 - 1),
                                 !.result = [tag |-> "panic", page |-> NoPage]]
             ELSE mock' = [mock EXCEPT
                             !.pc = "returned",
                             !.flights = flights,
                             !.result = MockPaginate(flights, mock.page_number,
                                                     mock.page_size, mock.overflow_checks)]
    /\ UNCHANGED <<reward_flights_latest, award, exchange, searches>>

NextMock == mock_range_loop \/ mock_range_return \/ mock_cheapest

SpecMock == InitMock /\ [][NextMock]_vars

\* C15: for every p >= 0 and s >= 1 both operations of the mock return
\* total_pages = ceil(T / s) and len(content) = min(s, max(0, T - p*s)), T
\* being the number of generated flights, and its cheapest search returns the
\* flights in non-decreasing order of the requested cabin's points.
C15_MockPaginationInvariants ==
    (mock.pc = "returned" /\ mock.page_size # Usize(0)) =>
        /\ mock.result.tag = "ok"
        /\ mock.result.page.total_elements = Len(mock.flights)
        /\ IsCeiling(mock.result.page.total_pages, Len(mock.flights), mock.page_size)
        /\ Len(mock.result.page.content) =
               ExpectedLength(Len(mock.flights), mock.page_number, mock.page_size)
        /\ (mock.op = "cheapest" /\ mock.cabin_type \in {"ECONOMY", "PREMIUM_ECONOMY", "BUSINESS"}) =>
               \A i \in 1..Len(mock.result.page.content) :
                   \A j \in (i + 1)..Len(mock.result.page.content) :
                       Unwrap(MockPoints(mock.result.page.content[i], mock.cabin_type))
                           <= Unwrap(MockPoints(mock.result.page.content[j], mock.cabin_type))

\* the same, for the calls whose start and end fit a usize and whose clock
\* stays below its last instant
C15_MockPaginationWithinUsize ==
    (/\ mock.pc # "none"
     /\ mock.clock_ok
     /\ ~MulOverflows(mock.page_number, mock.page_size)
     /\ ~AddOverflows(WrappingMul(mock.page_number, mock.page_size), mock.page_size)) =>
        C15_MockPaginationInvariants

\* C20: the generation loop of the mock's range search ends for every
\* (fromDate, toDate), the largest representable toDate included, having
\* pushed exactly one flight per day of [fromDate, toDate]: at no point do
\* the generated flights hold a day twice or a day outside the range.
C20_OneFlightPerDay ==
    (mock.pc # "none" /\ mock.op = "range") =>
        /\ \A i \in 1..Len(mock.flights) :
             /\ DateLE(mock.from_date, mock.flights[i].date)
             /\ DateLE(mock.flights[i].date, mock.to_date)
        /\ \A i \in 1..Len(mock.flights) : \A j \in (i + 1)..Len(mock.flights) :
             mock.flights[i].date # mock.flights[j].date

----------------------------------------------------------------------------
(* Writers: other clients of the database insert and delete flights of the
   requested route while the exchange runs; the two queries of a search are
   two statements, so a write can land between them *)

\* INSERT INTO reward_flights_latest: a flight of the requested route
insert_flight ==
    /\ Cardinality(reward_flights_latest) < MaxFlights
    /\ \E d \in Dates :
         LET i == CHOOSE k \in 1..MaxFlights :
                     /\ \A f \in reward_flights_latest : f.id # Some(k)
                     /\ \A j \in 1..(k - 1) : \E f \in reward_flights_latest : f.id = Some(j)
         IN  reward_flights_latest' = reward_flights_latest \cup {FlightRow(i, RequestedRoute, d)}
    /\ wrote' = (wrote \/ pc = "page")
    /\ UNCHANGED <<award, pc, req, count_result, result, response, row, mapped, prev, request,
                   queries, aside>>

\* DELETE FROM reward_flights_latest WHERE id = ..
delete_flight ==
    /\ \E f \in reward_flights_latest : reward_flights_latest' = reward_flights_latest \ {f}
    /\ wrote' = (wrote \/ pc = "page")
    /\ UNCHANGED <<award, pc, req, count_result, result, response, row, mapped, prev, request,
                   queries, aside>>

InitWrites == Idle([flights |-> {}, award |-> NoAwards])

NextWrites == Next \/ insert_flight \/ delete_flight

SpecWrites == InitWrites /\ [][NextWrites]_vars

\* the Page returned has len(content) = min(s, max(0, total_elements - p*s))
Consistent ==
    Len(Content) = ExpectedLength(result.page.total_elements, result.page.page_number,
                                  result.page.page_size)

\* a search whose two queries both succeeded, with a write between them,
\* returned a Page whose content and total_elements disagree
C16_InconsistentAfterWrite ==
    /\ Returned
    /\ count_result.tag = "ok"
    /\ wrote
    /\ result.page.page_size # Usize(0)
    /\ ~Consistent

\* C16: the count query and the page query are separate reads, so a write
\* between them can make the search return a Page whose total_elements and
\* content disagree (C16_InconsistentAfterWrite is such a state); without a
\* write between them no such Page is returned: every Page returned then has
\* len(content) = min(s, max(0, total_elements - p*s)).
C16_ConsistentWithoutWrite ==
    (Returned /\ ~wrote /\ result.page.page_size # Usize(0)) => Consistent

\* C17: in every execution of a search the count query is issued before the
\* page query and each of them at most once, a failed one included; rows are
\* mapped and a Page is built only when the page query has been issued and
\* has succeeded.
C17_CountThenPageOnce ==
    /\ queries \in {<<>>, <<"count">>, <<"count", "page">>}
    /\ pc = "count" => queries = <<>>
    /\ pc = "page" => (queries = <<"count">> /\ result = NoResult)
    /\ result.tag = "ok" => queries = <<"count", "page">>
    /\ result.tag # "ok" => (result.page = NoPage /\ response.page = NoPage)

\* both queries of a search failed, and each had been issued once
C17_Witness ==
    /\ Done
    /\ count_result.tag = "err"
    /\ result.tag = "err"
    /\ queries = <<"count", "page">>

\* the four attribute columns of an award row, the offer's fields of the
\* same names
AwardAttributes ==
    {"cabin_points_value", "is_saver_award", "cabin_class_seat_count",
     "cabin_class_seat_count_string"}

\* C18: when a cabin's identifier column is readable the offer is present and
\* each of its four attributes is populated on its own: absent where its
\* column is NULL or unreadable, the column's value otherwise, whatever the
\* other three columns hold.
C18_AttributesIndependent ==
    pc = "mapped" =>
        \A c \in Cabins :
            IsSome(Unwrap(row)[c].id) =>
                /\ IsSome(Unwrap(mapped)[AwardField[c]])
                /\ Unwrap(Unwrap(mapped)[AwardField[c]]).id
                       = Some(ToString(Unwrap(Unwrap(row)[c].id)))
                /\ \A a \in AwardAttributes :
                       Unwrap(Unwrap(mapped)[AwardField[c]])[a] = Unwrap(row)[c][a]

\* an economy row with a NULL points column beside a seat count and a saver
\* flag was mapped to an offer without points, with the seat count 2 and
\* the flag
C18_Witness ==
    /\ pc = "mapped"
    /\ IsSome(Unwrap(row).ae.id)
    /\ IsNone(Unwrap(row).ae.cabin_points_value)
    /\ IsSome(Unwrap(mapped).award_economy)
    /\ IsNone(Unwrap(Unwrap(mapped).award_economy).cabin_points_value)
    /\ Unwrap(Unwrap(mapped).award_economy).cabin_class_seat_count = Some(2)
    /\ Unwrap(Unwrap(mapped).award_economy).is_saver_award = Some(TRUE)
    /\ IsNone(Unwrap(Unwrap(mapped).award_economy).cabin_class_seat_count_string)

----------------------------------------------------------------------------
(* The handlers over every i32 the query string can carry *)

latest_reward_flights_signed == LatestRewardFlights(SignedPageParams)

cheapest_reward_flights_signed == CheapestRewardFlights(SignedPageParams)

\* let offset = (page_number * page_size) as i64, the first statement of both
\* methods: where the build checks overflow an overflowing product panics,
\* the request is dropped without a response and no query is issued; where
\* it does not, the product wraps and the method goes on to its count query
offset_overflow ==
    /\ pc = "count"
    /\ MulOverflows(req.page_number, req.page_size)
    /\ pc' = "done"
    /\ result' = [tag |-> "panic", page |-> NoPage]
    /\ UNCHANGED <<reward_flights_latest, award, req, count_result, response, row, mapped,
                   prev, request, queries, wrote, aside>>

InitSigned == Idle([flights |-> BaseFlights, award |-> NoAwards])

NextSigned ==
    \/ latest_reward_flights_signed
    \/ cheapest_reward_flights_signed
    \/ offset_overflow
    \/ range_count_query
    \/ range_page_query
    \/ cheapest_count_query
    \/ cheapest_page_query
    \/ respond

SpecSigned == InitSigned /\ [][NextSigned]_vars

\* the page number and the page size the caller's query amounts to
SuppliedPageNumber == UnwrapOr(request.query.page_number, 0)
SuppliedPageSize ==
    UnwrapOr(request.query.page_size,
             IF request.handler = "latest" THEN DefaultLatestPageSize
             ELSE DefaultCheapestPageSize)

\* the usize of p * s for two numbers p >= 0 and s >= 0 whose product is
\* below 2^64: p added up s times
RECURSIVE Product(_, _)
Product(p, s) == IF s = 0 THEN Usize(0) ELSE WrappingAdd(Product(p, s - 1), Usize(p))

\* C19: for every request the handlers pass on, the page number and the page
\* size the repository receives are the values the caller supplied (or the
\* defaults), the product page_number * page_size does not overflow, and the
\* OFFSET bound to the page query is that product, a non-negative integer.
C19_PagingArgumentsPreserved ==
    req.search # "none" =>
        /\ Fits(req.page_number) /\ Number(req.page_number) = SuppliedPageNumber
        /\ Fits(req.page_size) /\ Number(req.page_size) = SuppliedPageSize
        /\ ~MulOverflows(req.page_number, req.page_size)
        /\ ~Offset(req).negative
        /\ Offset(req).magnitude = Product(Max(SuppliedPageNumber, SuppliedPageSize),
                                           Min(SuppliedPageNumber, SuppliedPageSize))

====
